---------------------------- MODULE Spec2Model ----------------------------
(***************************************************************************)
(* A model of src/backprop.py: the conjugate-gradient optimizer            *)
(* NeuralNet.minimize (Spec), the mini-batch loop of                       *)
(* NeuralNet.doBackprop (SpecBatch) and the backward pass and gradient     *)
(* layout of NeuralNet.backprop_gradient (SpecGrad).                       *)
(*                                                                         *)
(* Numbers.  Losses and gradient entries returned by the objective are     *)
(* small integers.  Slopes and search directions are computed from them    *)
(* exactly, as rationals <<n, d>> with d > 0 in lowest terms.  A pair with *)
(* d = 0 is a non-finite float: <<1,0>> is +inf, <<-1,0>> is -inf and      *)
(* <<0,0>> is nan (numpy divides by zero without raising).                 *)
(*                                                                         *)
(* Step lengths.  z1, z2, z3 and limit come out of square roots (lines     *)
(* 415-422, 439-454) and have no exact finite representation.  They reach  *)
(* the control flow only through the sufficient-decrease test              *)
(* f2 > f1 + z1*RHO*d1.  The model keeps of them what the assignments at   *)
(* lines 391, 422-423, 442-456, 476 and 489 guarantee, z1 > 0, and lets    *)
(* that test take every outcome a positive z1 allows (ArmijoOutcomes).     *)
(*                                                                         *)
(* Points.  A parameter vector is named by the line search that produced   *)
(* it: 0 is the caller's x0, j > 0 is a point X0 + z1*s visited by the     *)
(* j-th line search.                                                       *)
(***************************************************************************)
EXTENDS Integers, Sequences, FiniteSets, TLC

VARIABLES
    \* ---- NeuralNet.minimize ----
    pc,         \* "init" | "top" | "search" | "done"
    length,     \* the argument `length`
    i,          \* the run length counter
    ls_failed,  \* 1 when the previous line search failed
    fX,         \* the loss trace
    X, X0,      \* current point and its backup
    f0, f1, f2, \* losses: backup, start of search, trial point
    df0, df1, df2, \* gradients: backup, start of search, trial point
    s,          \* search direction
    d1, d2,     \* slopes at the start of the search and at the trial point
    armijo,     \* the value of  f2 > f1 + z1*RHO*d1  at the trial point
    M,          \* evaluations left in this line search
    \* ---- bookkeeping of the run (not program state) ----
    nSearch,    \* line searches started
    nEvalSearch,\* objective evaluations made by the current line search
    manyTrials, \* the last finished search evaluated several trial points
    nEval,      \* objective evaluations made in all (counted up to |length|+1)
    fInit,      \* the loss at x0
    accepted,   \* the point accepted by the last successful line search
    preX, preF, \* the point and loss held when the current search began
    lastOutcome,\* "none" | "S" | "F": how the last finished search ended
    consecFails,\* failed line searches since the last success
    \* ---- NeuralNet.doBackprop: one pass over the mini-batches ----
    bpc,        \* "start" | "loop" | "done" | "raised"
    bn,         \* self.n, the number of samples
    wshape,     \* "vector": self.weights is 1-d; "column": it is (n,1)
    index,      \* the shuffled sample indices, position -> sample
    batch,      \* the loop variable of line 190
    handed,     \* the row sets handed to minimize, in order
    \* ---- NeuralNet.backprop_gradient: shapes and layout ----
    gpc,        \* "unflatten" | "backward" | "flatten" | "done" | "raised"
    sizes,      \* layer sizes d0 .. dL: layer l maps sizes[l] to sizes[l+1]
    types,      \* hidtype of each layer
    rows,       \* n, the rows of the batch
    gl,         \* the layer the current loop is at (1 .. L)
    gind,       \* ind, the running offset into the flat vector
    wpos,       \* per layer: <<r, c>> -> index of v that W[r][c] was read from
    bposn,      \* per layer: c -> index of v that hbias[c] was read from
    Ix,         \* the error signal: [dim, cols, ok]
    dW, db,     \* the lists of weight and bias gradient blocks
    grad,       \* the flat gradient: index -> what is stored there
    propagated  \* the layer whose error signal was last propagated (0: none)

minVars == <<pc, length, i, ls_failed, fX, X, X0, f0, f1, f2, df0, df1, df2,
             s, d1, d2, armijo, M, nSearch, nEvalSearch, manyTrials, nEval,
             fInit, accepted, preX, preF, lastOutcome, consecFails>>

batchVars == <<bpc, bn, wshape, index, batch, handed>>

gradVars == <<gpc, sizes, types, rows, gl, gind, wpos, bposn, Ix, dW, db,
              grad, propagated>>

vars == <<minVars, batchVars, gradVars>>

----------------------------------------------------------------------------
(* Bounds of the model.                                                    *)
MaxLen == 3
MaxNeg == 5
MaxLoss == 2
MaxN == 260
MaxDim == 3
MaxLayers == 3
MaxRows == 2

(* Program constants.                                                      *)
MAX == 20

\* RHO = 0.01 only scales the abstract step z1; SIG = 0.5 is SigNum/SigDen.
SigNum == 1
SigDen == 2

Lengths == (-MaxNeg .. -1) \cup (0 .. MaxLen)
Losses == 0 .. MaxLoss
\* The flat vector of the smallest network (one 1x1 layer) has two entries.
Idx == 1 .. 2
\* The gradients the objective may return.
GradSet == {<<0, 0>>, <<-2, -1>>, <<-1, 0>>, <<-1, -1>>, <<1, -1>>}

----------------------------------------------------------------------------
(* Exact arithmetic on floats that are rationals, +inf, -inf or nan.       *)
Abs(n) == IF n < 0 THEN -n ELSE n
Min(a, b) == IF a < b THEN a ELSE b

RECURSIVE Gcd(_, _)
Gcd(a, b) == IF b = 0 THEN a ELSE Gcd(b, a % b)

Sgn(n) == IF n > 0 THEN 1 ELSE IF n < 0 THEN -1 ELSE 0

\* n/d in lowest terms; d = 0 gives +inf, -inf or nan as IEEE division does
\* (the sign of a zero divisor is not tracked: see DivZero).
Q(n, d) ==
    IF d = 0 THEN <<Sgn(n), 0>>
    ELSE LET g == Gcd(Abs(n), Abs(d))
             sg == IF d < 0 THEN -1 ELSE 1
         IN  <<sg * (n \div g), sg * (d \div g)>>

Rat(n) == <<n, 1>>
Finite(a) == a[2] # 0
NaN == <<0, 0>>
IsNaN(a) == a = NaN

Neg(a) == <<-a[1], a[2]>>

Mul(a, b) ==
    IF Finite(a) /\ Finite(b) THEN Q(a[1] * b[1], a[2] * b[2])
    ELSE IF IsNaN(a) \/ IsNaN(b) \/ a[1] = 0 \/ b[1] = 0 THEN NaN
    ELSE <<Sgn(a[1]) * Sgn(b[1]), 0>>

Add(a, b) ==
    IF Finite(a) /\ Finite(b) THEN Q(a[1] * b[2] + b[1] * a[2], a[2] * b[2])
    ELSE IF IsNaN(a) \/ IsNaN(b) THEN NaN
    ELSE IF Finite(a) THEN b
    ELSE IF Finite(b) THEN a
    ELSE IF a = b THEN a ELSE NaN

Sub(a, b) == Add(a, Neg(b))

\* a > b on floats: false whenever a nan is involved.
Gt(a, b) ==
    IF IsNaN(a) \/ IsNaN(b) THEN FALSE
    ELSE IF Finite(a) /\ Finite(b) THEN a[1] * b[2] > b[1] * a[2]
    ELSE IF Finite(a) THEN b = <<-1, 0>>
    ELSE IF Finite(b) THEN a = <<1, 0>>
    ELSE a = <<1, 0>> /\ b = <<-1, 0>>

\* np.dot of two vectors
Dot(u, v) == Add(Mul(u[1], v[1]), Mul(u[2], v[2]))

VecRat(g) == [k \in Idx |-> Rat(g[k])]
VecNeg(v) == [k \in Idx |-> Neg(v[k])]
VecFinite(v) == \A k \in Idx : Finite(v[k])

\* a / b for finite a and b; zs (1 or -1) is the sign of b when b is a zero.
Div(a, b, zs) ==
    IF b[1] # 0 THEN Q(a[1] * b[2], a[2] * b[1])
    ELSE <<Sgn(a[1]) * zs, 0>>

Half(a) == Mul(<<SigNum, SigDen>>, a)     \* SIG * a
IsZeroVec(v) == \A k \in Idx : v[k] = Rat(0)

----------------------------------------------------------------------------
(* The objective callback.  fun(X) returns a loss and a gradient; the      *)
(* model draws them from Losses and GradSet.  A direction of exact zeros   *)
(* leaves X where it was, and the objective is a function of X, so the     *)
(* loss there is the loss already known (f1).                              *)

\* line 399 / 424 / 457: the point reached from point Xv along sv in search j
TrialPoint(Xv, sv, j) == IF IsZeroVec(sv) THEN Xv ELSE j

LossesAt(sv, f1v) == IF IsZeroVec(sv) THEN {f1v} ELSE Losses

\* The outcomes of  f2 > f1 + z1*RHO*d1  (lines 412, 431) for a step z1 > 0
\* of unknown size, in exact arithmetic: z1*RHO*d1 has the sign of d1, so
\* the test is decided when f2 - f1 is zero or has the other sign, and may
\* go either way when f2 - f1 has the sign of d1.
ArmijoOutcomes(f2v, f1v, d1v) ==
    IF d1v[1] = 0 THEN {f2v > f1v}
    ELSE IF d1v[1] < 0 THEN (IF f2v >= f1v THEN {TRUE} ELSE BOOLEAN)
    ELSE (IF f2v > f1v THEN BOOLEAN ELSE {FALSE})

\* WolfeFails without the sufficient-decrease test
WolfeFailsNoArmijo(a, d2v, d1v) == Gt(d2v, Neg(Half(d1v)))

\* lines 412 and 431: (f2 > f1+z1*RHO*d1) or (d2 > -SIG*d1)
WolfeFails(a, d2v, d1v) == a \/ Gt(d2v, Neg(Half(d1v)))

\* line 433: d2 > SIG*d1
CurvatureOk(d2v, d1v) == Gt(d2v, Half(d1v))

\* Continue with the loop test off by one
ContinueOffByOne(iv, len) == iv <= Abs(len)

\* line 393: while i < np.abs(length)
Continue(iv, len) == iv < Abs(len)

\* CountsEvals with every evaluation counted whatever the sign of length
CountsEvalsAlways(len) == TRUE

\* lines 387, 401, 427, 460: a negative length counts objective evaluations
CountsEvals(len) == len < 0
\* line 394: a positive length counts line searches
CountsSearches(len) == len > 0

\* lines 405-408
InitialM(len, iv) == IF len > 0 THEN MAX ELSE Min(MAX, -len - iv)

\* lines 468-469: (df2.df2 - df1.df2) / np.dot(np.dot(df1,df1), s) - df2,
\* the scalar divided by the vector (df1.df1)*s entry by entry
PolackRibiere(g1, g2, sv, zs) ==
    LET num == Sub(Dot(VecRat(g2), VecRat(g2)), Dot(VecRat(g1), VecRat(g2)))
        c   == Dot(VecRat(g1), VecRat(g1))
    IN  [k \in Idx |-> Sub(Div(num, Mul(c, sv[k]), zs), Rat(g2[k]))]

\* line 473: the test that resets the direction to steepest descent
NeedsReset(d2v, g, sv) == Gt(d2v, Rat(0))

\* FlagAfterSuccess with the flag left as it was
FlagKept(ls) == ls

\* line 478
FlagAfterSuccess(ls) == 0

\* Restore with the backup ignored
RestoreSkipped(backup, current) == current

\* lines 480-481: the point and loss a failed search leaves
Restore(backup, current) == backup

\* The evaluation count is kept up to one more than the budget |length|.
Bump(n, len) == Min(n + 1, Abs(len) + 1)

----------------------------------------------------------------------------
(* NeuralNet.minimize, one action per objective evaluation or exit.        *)

MinRest ==
    /\ i = 0 /\ ls_failed = 0 /\ fX = <<>>
    /\ X = 0 /\ X0 = 0
    /\ f0 = 0 /\ f1 = 0 /\ f2 = 0
    /\ df0 = [k \in Idx |-> 0] /\ df1 = [k \in Idx |-> 0]
    /\ df2 = [k \in Idx |-> 0]
    /\ s = [k \in Idx |-> Rat(0)]
    /\ d1 = Rat(0) /\ d2 = Rat(0)
    /\ armijo = FALSE /\ M = 0
    /\ nSearch = 0 /\ nEvalSearch = 0 /\ nEval = 0 /\ manyTrials = FALSE
    /\ fInit = 0 /\ accepted = 0 /\ preX = 0 /\ preF = 0
    /\ lastOutcome = "none" /\ consecFails = 0

MinInit == pc = "init" /\ length \in Lengths /\ MinRest

MinIdle == pc = "done" /\ length = 0 /\ MinRest

\* lines 383-391: the first evaluation, at x0
Start ==
    /\ pc = "init"
    /\ \E f \in Losses, g \in GradSet :
         /\ f1' = f /\ df1' = g /\ fInit' = f
         /\ s' = VecNeg(VecRat(g))
         /\ d1' = Neg(Dot(VecRat(g), VecRat(g)))
    /\ i' = IF CountsEvals(length) THEN i + 1 ELSE i
    /\ nEval' = Bump(nEval, length)
    /\ pc' = "top"
    /\ UNCHANGED <<length, ls_failed, fX, X, X0, f0, f2, df0, df2, d2, armijo,
                   M, nSearch, nEvalSearch, manyTrials, accepted, preX, preF,
                   lastOutcome, consecFails>>

\* lines 393-410: a line search starts with its first trial point
BeginSearch ==
    /\ pc = "top"
    /\ Continue(i, length)
    /\ LET i1 == IF CountsSearches(length) THEN i + 1 ELSE i
           i2 == IF CountsEvals(length) THEN i1 + 1 ELSE i1
       IN  /\ i' = i2
           /\ M' = InitialM(length, i2)
    /\ X0' = X /\ f0' = f1 /\ df0' = df1
    /\ preX' = X /\ preF' = f1
    /\ X' = TrialPoint(X, s, nSearch + 1)
    /\ \E f \in LossesAt(s, f1), g \in GradSet :
         /\ f2' = f /\ df2' = g
         /\ d2' = Dot(VecRat(g), s)
         /\ armijo' \in ArmijoOutcomes(f, f1, d1)
    /\ nSearch' = nSearch + 1
    /\ nEvalSearch' = 1
    /\ nEval' = Bump(nEval, length)
    /\ pc' = "search"
    /\ manyTrials' = FALSE
    /\ UNCHANGED <<length, ls_failed, fX, f1, df1, s, d1, fInit, accepted,
                   lastOutcome, consecFails>>

\* lines 425-430 and 458-462: one more evaluation inside the line search
Evaluate ==
    /\ X' = TrialPoint(X, s, nSearch)
    /\ \E f \in LossesAt(s, f1), g \in GradSet :
         /\ f2' = f /\ df2' = g
         /\ d2' = Dot(VecRat(g), s)
         /\ armijo' \in ArmijoOutcomes(f, f1, d1)
    /\ M' = M - 1
    /\ i' = IF CountsEvals(length) THEN i + 1 ELSE i
    /\ nEvalSearch' = nEvalSearch + 1
    /\ nEval' = Bump(nEval, length)
    /\ UNCHANGED <<pc, length, ls_failed, fX, X0, f0, f1, df0, df1, s, d1,
                   nSearch, fInit, accepted, preX, preF, lastOutcome,
                   consecFails, manyTrials>>

\* M and the outcome of the sufficient-decrease test are locals of one line
\* search: lines 400-408 overwrite them before the next search reads them.
\* The model clears them when a search ends, and keeps of the evaluation
\* count only whether the search went beyond its first trial point.
SearchOver ==
    /\ M' = 0
    /\ armijo' = FALSE
    /\ nEvalSearch' = 0
    /\ manyTrials' = (nEvalSearch > 1)

\* lines 412-430: tighten the bracket
CanInterpolate == pc = "search" /\ WolfeFails(armijo, d2, d1) /\ M > 0

Interpolate ==
    /\ CanInterpolate
    /\ Evaluate

\* lines 431-462: extrapolate
CanExtrapolate ==
    /\ pc = "search"
    /\ ~CanInterpolate
    /\ ~WolfeFails(armijo, d2, d1)
    /\ ~CurvatureOk(d2, d1)
    /\ M # 0

Extrapolate ==
    /\ CanExtrapolate
    /\ Evaluate

\* lines 433-436 and 464-478: the search succeeded
CanSucceed ==
    /\ pc = "search"
    /\ ~CanInterpolate
    /\ ~WolfeFails(armijo, d2, d1)
    /\ CurvatureOk(d2, d1)

Succeed ==
    /\ CanSucceed
    /\ f1' = f2
    /\ fX' = Append(fX, f2)
    /\ df1' = df2
    /\ df2' = df1
    /\ \E zs \in {1, -1} :
         LET sPR == PolackRibiere(df1, df2, s, zs)
         IN  IF NeedsReset(d2, df2, sPR)
             THEN /\ s' = VecNeg(VecRat(df2))
                  /\ d2' = Neg(Dot(VecRat(df2), VecRat(df2)))
             ELSE /\ s' = sPR
                  /\ d2' = d2
    /\ d1' = d2'
    /\ ls_failed' = FlagAfterSuccess(ls_failed)
    /\ accepted' = X
    /\ lastOutcome' = "S"
    /\ consecFails' = 0
    /\ pc' = "top"
    /\ SearchOver
    /\ UNCHANGED <<length, i, X, X0, f0, f2, df0, nSearch, nEval, fInit,
                   preX, preF>>

\* lines 431-432, 437-438 and 479-490: the search failed
CanFail ==
    /\ pc = "search"
    /\ ~CanInterpolate
    /\ \/ WolfeFails(armijo, d2, d1)
       \/ (~CurvatureOk(d2, d1) /\ M = 0)

Fail ==
    /\ CanFail
    /\ X' = Restore(X0, X)
    /\ f1' = Restore(f0, f2)
    /\ lastOutcome' = "F"
    /\ consecFails' = consecFails + 1
    /\ IF ls_failed = 1 \/ i > Abs(length)
       THEN /\ df1' = df0
            /\ pc' = "done"
            /\ UNCHANGED <<df2, s, ls_failed>>
       ELSE /\ df1' = df2
            /\ df2' = df0
            /\ s' = VecNeg(VecRat(df2))
            /\ ls_failed' = 1
            /\ pc' = "top"
    /\ SearchOver
    /\ UNCHANGED <<length, i, fX, X0, f0, f2, df0, d1, d2, nSearch, nEval,
                   fInit, accepted, preX, preF>>

\* lines 393 and 492: the budget is used up
Return ==
    /\ pc = "top"
    /\ ~Continue(i, length)
    /\ pc' = "done"
    /\ UNCHANGED <<length, i, ls_failed, fX, X, X0, f0, f1, f2, df0, df1, df2,
                   s, d1, d2, armijo, M, nSearch, nEvalSearch, manyTrials,
                   nEval, fInit, accepted, preX, preF, lastOutcome,
                   consecFails>>

----------------------------------------------------------------------------
(* NeuralNet.doBackprop, lines 187-221: the pass over the mini-batches.    *)
(* np.random.shuffle yields a permutation of 0 .. n-1; the model draws it  *)
(* from three: the identity, the reversal and the rotation by one.         *)
(* train() sets self.weights to a vector (line 112), for which the row     *)
(* selection of line 198 raises IndexError (too many indices); lines 198   *)
(* and 289 are written for an (n,1) column.  Both shapes are modelled.     *)

batch_size == 128

Shuffles(n) ==
    { [q \in 0 .. n - 1 |-> q],
      [q \in 0 .. n - 1 |-> n - 1 - q],
      [q \in 0 .. n - 1 |-> (q + 1) % n] }

\* lines 191-194
BatchEnd(b, n) == IF b + 2 * batch_size > n THEN n ELSE b + batch_size

\* lines 196-197: index[batch:batchend]
BatchRows(idx, b, e) == { idx[q] : q \in b .. e - 1 }

BatchIdle ==
    /\ bpc = "done" /\ bn = 0 /\ wshape = "column" /\ index = <<>>
    /\ batch = 0 /\ handed = <<>>

BatchInit ==
    /\ bpc = "start"
    /\ bn \in 1 .. MaxN
    /\ wshape \in {"vector", "column"}
    /\ index = <<>> /\ batch = 0 /\ handed = <<>>

\* lines 188-190
Shuffle ==
    /\ bpc = "start"
    /\ index' \in Shuffles(bn)
    /\ batch' = 0
    /\ bpc' = "loop"
    /\ UNCHANGED <<bn, wshape, handed>>

\* lines 190-221: one iteration of the loop over range(0, n, batch_size)
TrainBatch ==
    /\ bpc = "loop"
    /\ batch < bn
    /\ IF wshape = "vector"
       THEN /\ bpc' = "raised"
            /\ UNCHANGED <<batch, handed>>
       ELSE /\ handed' = Append(handed,
                               BatchRows(index, batch, BatchEnd(batch, bn)))
            /\ batch' = batch + batch_size
            /\ bpc' = "loop"
    /\ UNCHANGED <<bn, wshape, index>>

\* line 190: the range is exhausted
EndPass ==
    /\ bpc = "loop"
    /\ batch >= bn
    /\ bpc' = "done"
    /\ UNCHANGED <<bn, wshape, index, batch, handed>>

----------------------------------------------------------------------------
(* NeuralNet.backprop_gradient, lines 253-341: the shapes of the arrays    *)
(* and where each number comes from and goes to.  Layers are numbered      *)
(* 1 .. L (the code's i is l - 1); rows, columns and flat indices count    *)
(* from 0 as in the code.  What an array entry holds is a tag:             *)
(*   <<"dW", l, r, c>>  the partial derivative of the cost by W_l[r][c]    *)
(*   <<"db", l, c, 0>>  the partial derivative of the cost by hbias_l[c]   *)
(*   <<"junk", l, r, c>> a number computed from a wrong error signal       *)
(*   <<"zero", 0, 0, 0>> the 0 np.zeros_like put there                     *)
(* A column of the error signal Ix is named <<l, k>>: column k (from 1) of *)
(* delta . [W_l; bias_l]^T, and <<L+1, k>> for the output error.           *)

HidTypes == {"sigmoid", "gaussian"}

SizeSeqs == UNION { [1 .. L + 1 -> 1 .. MaxDim] : L \in 1 .. MaxLayers }

NumLayers == Len(sizes) - 1

Reverse(sq) == [k \in 1 .. Len(sq) |-> sq[Len(sq) + 1 - k]]

ZeroTag == <<"zero", 0, 0, 0>>

RECURSIVE ParamCount(_, _)
\* len(v): the sum over the layers from l on of in*out + out (lines 201-207)
ParamCount(sz, l) ==
    IF l > Len(sz) - 1 THEN 0
    ELSE sz[l] * sz[l + 1] + sz[l + 1] + ParamCount(sz, l + 1)

\* line 260: v[ind:ind+h*w].reshape((h,w)) puts v[ind + r*w + c] at W[r][c]
ReshapeIndex(ind, r, c, h, w) == ind + r * w + c

\* line 299: delta = dot(acts[i].T, Ix), acts[i] carrying a column of ones.
\* Row r < h of delta belongs to input r, row h to the bias; with the true
\* error signal delta[r][c] is the derivative by W[r][c] (by hbias[c]).
DeltaTag(l, r, c, h, ok) ==
    IF ~ok THEN <<"junk", l, r, c>>
    ELSE IF r < h THEN <<"dW", l, r, c>>
    ELSE <<"db", l, c, 0>>

Delta(l, h, ix) ==
    IF ix.dim = 2
    THEN [dim |-> 2, nr |-> h + 1, nc |-> Len(ix.cols),
          at |-> [rc \in (0 .. h) \X (0 .. Len(ix.cols) - 1) |->
                     DeltaTag(l, rc[1], rc[2], h, ix.ok)]]
    ELSE [dim |-> 1, nr |-> h + 1, nc |-> 0,
          at |-> [rc \in (0 .. h) \X {0} |-> <<"junk", l, rc[1], 0>>]]

\* line 302: delta[:-1].T
WeightBlock(dl) ==
    IF dl.dim = 2
    THEN [dim |-> 2, nr |-> dl.nc, nc |-> dl.nr - 1,
          at |-> [rc \in (0 .. dl.nc - 1) \X (0 .. dl.nr - 2) |->
                     dl.at[<<rc[2], rc[1]>>]]]
    ELSE [dim |-> 1, nr |-> dl.nr - 1, nc |-> 0,
          at |-> [rc \in (0 .. dl.nr - 2) \X {0} |-> dl.at[rc]]]

\* lines 303-307: delta[-1].T, or delta[-1] itself when it is a float
BiasBlock(dl) ==
    IF dl.dim = 2
    THEN [dim |-> 1, nr |-> dl.nc, nc |-> 0,
          at |-> [rc \in (0 .. dl.nc - 1) \X {0} |-> dl.at[<<dl.nr - 1, rc[1]>>]]]
    ELSE [dim |-> 0, nr |-> 1, nc |-> 0,
          at |-> [rc \in {0} \X {0} |-> dl.at[<<dl.nr - 1, 0>>]]]

\* lines 314-315 and 318: dot(Ix, concatenate((W, biasr)).T) has h + 1
\* columns, the last one the bias column; Ix[:,-1] keeps that one alone,
\* as a 1-d array
Propagate(l, h, ix) ==
    [dim |-> 1, cols |-> << <<l, h + 1>> >>, ok |-> FALSE]

\* lines 314, 317: whether the product of line 314 can be formed.  A 2-d Ix
\* has as many columns as W has; a 1-d Ix of n entries is taken as a row
\* vector and needs n to be the number of columns of W.
ProductDefined(ix, w, n) == IF ix.dim = 2 THEN Len(ix.cols) = w ELSE n = w

\* lines 327-331: the block as it is written into grad, row by row
FlatOf(blk) ==
    IF blk.dim = 2
    THEN [k \in 0 .. blk.nr * blk.nc - 1 |->
             blk.at[<<k \div blk.nc, k % blk.nc>>]]
    ELSE [k \in 0 .. blk.nr - 1 |-> blk.at[<<k, 0>>]]

BlockSize(blk) == IF blk.dim = 2 THEN blk.nr * blk.nc ELSE blk.nr

\* grad[ind:ind+size] = flat
Store(g, ind, flat, size) ==
    [k \in DOMAIN g |->
        IF k >= ind /\ k < ind + size THEN flat[k - ind] ELSE g[k]]

NoSignal == [dim |-> 0, cols |-> <<>>, ok |-> FALSE]

GradIdle ==
    /\ gpc = "done" /\ sizes = <<1, 1>> /\ types = <<"sigmoid">>
    /\ rows = 1 /\ gl = 1 /\ gind = 0
    /\ wpos = <<>> /\ bposn = <<>> /\ Ix = NoSignal
    /\ dW = <<>> /\ db = <<>> /\ grad = <<>> /\ propagated = 0

GradInit ==
    /\ gpc = "unflatten"
    /\ sizes \in SizeSeqs
    /\ types \in [1 .. Len(sizes) - 1 -> HidTypes]
    /\ rows \in 1 .. MaxRows
    /\ gl = 1 /\ gind = 0
    /\ wpos = <<>> /\ bposn = <<>> /\ Ix = NoSignal
    /\ dW = <<>> /\ db = <<>> /\ grad = <<>> /\ propagated = 0

\* lines 256-264: one layer's weights and biases are read from v
UnflattenLayer ==
    /\ gpc = "unflatten"
    /\ LET h == sizes[gl]
           w == sizes[gl + 1]
       IN  /\ wpos' = Append(wpos,
                 [rc \in (0 .. h - 1) \X (0 .. w - 1) |->
                     ReshapeIndex(gind, rc[1], rc[2], h, w)])
           /\ bposn' = Append(bposn, [c \in 0 .. w - 1 |-> gind + h * w + c])
           /\ gind' = gind + h * w + w
    /\ IF gl = NumLayers
       THEN gpc' = "forward" /\ gl' = gl
       ELSE gpc' = "unflatten" /\ gl' = gl + 1
    /\ UNCHANGED <<sizes, types, rows, Ix, dW, db, grad, propagated>>

\* lines 266-290: the forward pass and the output error, one column per
\* output unit
Forward ==
    /\ gpc = "forward"
    /\ Ix' = [dim |-> 2,
              cols |-> [k \in 1 .. sizes[NumLayers + 1] |->
                           <<NumLayers + 1, k>>],
              ok |-> TRUE]
    /\ gl' = NumLayers
    /\ gpc' = "backward"
    /\ UNCHANGED <<sizes, types, rows, gind, wpos, bposn, dW, db, grad,
                   propagated>>

\* lines 293-321: one layer of the backward pass; after the last one the
\* lists are reversed and grad is zeroed (lines 320-325)
BackwardLayer ==
    /\ gpc = "backward"
    /\ LET h == sizes[gl]
           dl == Delta(gl, h, Ix)
           dW1 == Append(dW, WeightBlock(dl))
           db1 == Append(db, BiasBlock(dl))
       IN  IF gl > 1
           THEN IF types[gl - 1] = "sigmoid" /\ ProductDefined(Ix, sizes[gl + 1], rows)
                THEN /\ Ix' = Propagate(gl, h, Ix)
                     /\ propagated' = gl
                     /\ dW' = dW1 /\ db' = db1
                     /\ gl' = gl - 1
                     /\ gpc' = "backward"
                     /\ UNCHANGED <<gind, grad>>
                ELSE \* 'gaussian': gp.concatentate does not exist (line 317);
                     \* 'sigmoid': the shapes of line 314 do not agree
                     /\ gpc' = "raised"
                     /\ dW' = dW1 /\ db' = db1
                     /\ UNCHANGED <<Ix, propagated, gl, gind, grad>>
           ELSE /\ dW' = Reverse(dW1) /\ db' = Reverse(db1)
                /\ grad' = [k \in 0 .. ParamCount(sizes, 1) - 1 |-> ZeroTag]
                /\ gind' = 0
                /\ gl' = 1
                /\ gpc' = "flatten"
                /\ UNCHANGED <<Ix, propagated>>
    /\ UNCHANGED <<sizes, types, rows, wpos, bposn>>

\* lines 326-339: one layer's blocks are written into grad
FlattenLayer ==
    /\ gpc = "flatten"
    /\ LET sw == BlockSize(dW[gl])
           sb == BlockSize(db[gl])
           g1 == Store(grad, gind, FlatOf(dW[gl]), sw)
       IN  /\ grad' = Store(g1, gind + sw, FlatOf(db[gl]), sb)
           /\ gind' = gind + sw + sb
    /\ IF gl = NumLayers
       THEN gpc' = "done" /\ gl' = gl
       ELSE gpc' = "flatten" /\ gl' = gl + 1
    /\ UNCHANGED <<sizes, types, rows, wpos, bposn, Ix, dW, db, propagated>>

----------------------------------------------------------------------------
(* The specifications: one per routine, the other routines at rest.        *)

Init == MinInit /\ BatchIdle /\ GradIdle

Next ==
    \/ Start /\ UNCHANGED <<batchVars, gradVars>>
    \/ BeginSearch /\ UNCHANGED <<batchVars, gradVars>>
    \/ Interpolate /\ UNCHANGED <<batchVars, gradVars>>
    \/ Extrapolate /\ UNCHANGED <<batchVars, gradVars>>
    \/ Succeed /\ UNCHANGED <<batchVars, gradVars>>
    \/ Fail /\ UNCHANGED <<batchVars, gradVars>>
    \/ Return /\ UNCHANGED <<batchVars, gradVars>>

Spec == Init /\ [][Next]_vars

InitBatch == BatchInit /\ MinIdle /\ GradIdle

NextBatch ==
    \/ Shuffle /\ UNCHANGED <<minVars, gradVars>>
    \/ TrainBatch /\ UNCHANGED <<minVars, gradVars>>
    \/ EndPass /\ UNCHANGED <<minVars, gradVars>>

SpecBatch == InitBatch /\ [][NextBatch]_vars

InitGrad == GradInit /\ MinIdle /\ BatchIdle

NextGrad ==
    \/ UnflattenLayer /\ UNCHANGED <<minVars, batchVars>>
    \/ Forward /\ UNCHANGED <<minVars, batchVars>>
    \/ BackwardLayer /\ UNCHANGED <<minVars, batchVars>>
    \/ FlattenLayer /\ UNCHANGED <<minVars, batchVars>>

SpecGrad == InitGrad /\ [][NextGrad]_vars

----------------------------------------------------------------------------
(* Claims about NeuralNet.minimize.                                        *)

Leq(a, b) == ~IsNaN(a) /\ ~IsNaN(b) /\ ~Gt(a, b)

\* C1: two consecutive failed line searches end the run at once, in the
\* normal final state; a success clears the failure flag, and a run that
\* ends with budget left has just seen two failures in a row.
C1_TwoFailuresStop ==
    /\ consecFails <= 2
    /\ (consecFails = 2 => pc = "done")
    /\ (pc = "done" /\ i < Abs(length) => consecFails = 2)
    /\ (pc = "top" => ls_failed = (IF consecFails = 1 THEN 1 ELSE 0))

\* C1 witness: failures that are not consecutive do not stop the run: a
\* failed, a successful and a failed search (three searches, one loss
\* recorded, one failure pending), ended by the budget.
C1_Witness ==
    /\ pc = "done" /\ length > 0 /\ i = length
    /\ nSearch = 3 /\ Len(fX) = 1 /\ consecFails = 1 /\ ls_failed = 1

\* C2: after a failed line search X and f1 are what they were when that
\* search began, and between searches and at the return X is x0 or the
\* point accepted by the last successful search.
C2_FailureRestores ==
    /\ (pc \in {"top", "done"} /\ lastOutcome = "F"
          => X = preX /\ f1 = preF)
    /\ (pc \in {"top", "done"} => X = accepted)

\* C2 witness: a failed search that evaluated several trial points, after
\* an earlier search had moved the optimizer away from x0.
C2_Witness ==
    /\ pc = "done" /\ lastOutcome = "F" /\ manyTrials
    /\ accepted # 0 /\ X = accepted

\* C3: the loss appended by a successful line search is at most the loss
\* held when the search began; the trace is non-increasing and starts at or
\* below the loss at x0.
C3_LossNonIncreasing ==
    /\ \A k \in 1 .. Len(fX) :
           fX[k] <= (IF k = 1 THEN fInit ELSE fX[k - 1])
    /\ (pc \in {"top", "done"} /\ lastOutcome = "S"
          => f1 = fX[Len(fX)] /\ f1 <= preF)

\* C3 witness: two successful searches, each strictly lowering the loss.
C3_Witness ==
    /\ Len(fX) >= 2 /\ fX[1] < fInit /\ fX[2] < fX[1]

\* C4 (as claimed, for directions with finite entries): at the start of
\* every line search dot(df1, s) <= 0.
C4_DescentAtSearchStart ==
    (pc = "top" /\ VecFinite(s)) => Leq(Dot(VecRat(df1), s), Rat(0))

\* C5 (as claimed): a positive budget caps the objective evaluations, and a
\* negative budget makes the counter count line searches.
C5_Original ==
    /\ (length > 0 => nEval <= length)
    /\ (length < 0 => i = nSearch)

\* C5 (amended): with a positive budget the counter counts line searches
\* started; with a negative budget it counts objective evaluations, which
\* never exceed |length|.
C5_Accounting ==
    /\ (length > 0 => i = nSearch)
    /\ (length < 0 => i = nEval /\ nEval <= -length)

\* C5 witness: a negative budget used up to the last evaluation by a run
\* that made fewer line searches than evaluations.
C5_Witness ==
    /\ pc = "done" /\ length < 0 /\ nEval = -length
    /\ nSearch >= 1 /\ nSearch < nEval

\* C6: every call ends; with a positive length L it starts at most L line
\* searches, exactly L unless two failures in a row stopped it, and returns
\* the number of searches started; the counter never exceeds |length|.
C6_Final ==
    /\ i <= Abs(length)
    /\ (length > 0 => nSearch <= length)
    /\ (pc = "done" /\ length > 0
          => /\ i = nSearch
             /\ (nSearch = length \/ consecFails = 2))

\* An upper bound on the steps a run still has to take: with a positive
\* length each remaining search takes at most MAX evaluations after its
\* first, plus its end; with a negative length each remaining evaluation
\* is followed by at most one end of a search.
StepsLeft ==
    IF pc = "done" THEN 0
    ELSE IF pc = "init" THEN (Abs(length) + 1) * (MAX + 2) + 2
    ELSE IF length >= 0
         THEN (Abs(length) - i) * (MAX + 2)
                + (IF pc = "search" THEN M + 2 ELSE 1)
         ELSE 2 * (Abs(length) - i) + (IF pc = "search" THEN 2 ELSE 1)

\* Some step can be taken: the guards of the actions of Next.
CanStep ==
    \/ pc \in {"init", "top"}
    \/ CanInterpolate \/ CanExtrapolate \/ CanSucceed \/ CanFail

\* Termination is stated as: the run is never stuck before it returns, and
\* every step lowers the natural number StepsLeft.
C6_TerminatesWithinBudget ==
    /\ [](C6_Final /\ StepsLeft >= 0 /\ (pc = "done" \/ CanStep))
    /\ [][StepsLeft' < StepsLeft]_vars

\* C6 witness: a positive budget used in full by a run that was not
\* stopped by failures.
C6_Witness ==
    /\ pc = "done" /\ length = MaxLen /\ nSearch = MaxLen
    /\ i = MaxLen /\ consecFails < 2

\* C10 (as claimed): a line search makes at most MAX objective evaluations.
C10_AtMostMaxEvaluations == nEvalSearch <= MAX

----------------------------------------------------------------------------
(* Claims about NeuralNet.doBackprop.                                      *)

RECURSIVE TimesHanded(_, _, _)
TimesHanded(hs, k, x) ==
    IF k = 0 THEN 0
    ELSE (IF x \in hs[k] THEN 1 ELSE 0) + TimesHanded(hs, k - 1, x)

\* C7 (as claimed): in a completed pass every sample index is in exactly one
\* mini-batch, and with n >= 128 no mini-batch has fewer than 128 rows.
C7_BatchesPartition ==
    bpc = "done" /\ bn > 0 =>
        /\ \A x \in 0 .. bn - 1 : TimesHanded(handed, Len(handed), x) = 1
        /\ (bn >= batch_size =>
               \A k \in 1 .. Len(handed) :
                   Cardinality(handed[k]) >= batch_size)

----------------------------------------------------------------------------
(* Claims about NeuralNet.backprop_gradient.                               *)

\* C8 (as claimed): the derivative by W_l[r][c] is stored in grad at the
\* index of v from which W_l[r][c] was read, for every layer and entry.
C8_GradientLayout ==
    gpc = "done" =>
        \A l \in 1 .. NumLayers :
            \A rc \in DOMAIN wpos[l] :
                grad[wpos[l][rc]] = <<"dW", l, rc[1], rc[2]>>

\* C9 (as claimed): the backward pass does not fail, and the error signal
\* handed from layer l to the layer below is 2-d with the columns 1 .. in_l
\* of delta . [W_l; bias_l]^T, the bias column in_l + 1 dropped.
C9_ErrorSignalDropsBias ==
    /\ gpc # "raised"
    /\ (propagated > 0 =>
          /\ Ix.dim = 2
          /\ Ix.cols = [k \in 1 .. sizes[propagated] |-> <<propagated, k>>])

----------------------------------------------------------------------------
(* The Polack-Ribiere update of NeuralNet.minimize.                        *)

\* ((g.g - g_prev.g) / (g_prev.g_prev)) * s - g: the old direction times
\* the scalar ratio, minus the new gradient
ScaledDirection(g1, g2, sv, zs) ==
    LET num == Sub(Dot(VecRat(g2), VecRat(g2)), Dot(VecRat(g1), VecRat(g2)))
        c   == Dot(VecRat(g1), VecRat(g1))
    IN  [k \in Idx |-> Sub(Mul(Div(num, c, zs), sv[k]), Rat(g2[k]))]

\* C11 (as claimed): a step that ends a line search with success leaves in s
\* the old direction multiplied by the scalar Polack-Ribiere ratio minus the
\* gradient at the accepted point (or the steepest-descent direction, when
\* the reset of lines 473-475 replaced it), for every old direction s.
C11_PolackRibiereDirection ==
    [][ (pc = "search" /\ Len(fX') = Len(fX) + 1) =>
            \/ \E zs \in {1, -1} : s' = ScaledDirection(df1, df2, s, zs)
            \/ s' = VecNeg(VecRat(df2)) ]_vars
=============================================================================
